---------------------------- MODULE Spec2Model ----------------------------
(***************************************************************************)
(* The code of "Kmeans & Gaussian Mixture Model.ipynb": the Gaussian-      *)
(* mixture EM (the cell that builds the density from scratch:              *)
(* multivariate_gaussian, initialize_parameters, e_step, m_step and the    *)
(* driver gmm_step), the class KMeans, and the coin-mixture EM             *)
(* (compute_responsibilities, update_parameters, log_likelihood and the    *)
(* driver coin_probabilities).                                             *)
(*                                                                         *)
(* Numbers.  A NumPy float is modelled as an exact rational <<n, d>> with  *)
(* d > 0 in lowest terms, or one of the IEEE specials NaN = <<0, 0>>,      *)
(* +inf = <<1, 0>>, -inf = <<-1, 0>>.  The arithmetic follows IEEE 754 on  *)
(* the specials (0/0 = NaN, x/0 = +-inf, 0*inf = NaN, NaN propagates);     *)
(* rounding of finite results and the sign of zero are not modelled.       *)
(*                                                                         *)
(* Densities.  exp and sqrt are not rational.  multivariate_gaussian       *)
(* computes det(cov), inv(cov) and the quadratic form q exactly and        *)
(* classifies the result the way the float computation does: LinAlgError   *)
(* (singular cov), NaN (NaN input or sqrt of a negative determinant), 0    *)
(* (exp underflow), +inf (exp overflow) or a positive finite density,      *)
(* which is named by its exact pair (q, det).  e_step needs only the       *)
(* ratios of the terms of a row: positive terms with the same (q, det)     *)
(* have a common factor that cancels, and the inputs explored here are     *)
(* those where that is the case for every row (Commensurable, checked as   *)
(* an invariant), so every responsibility the model holds is the exact one.*)
(*                                                                         *)
(* Library behaviour.  np.random.seed(42) followed by np.random.choice is  *)
(* the MT19937 stream itself, so the initial means are the ones the code   *)
(* picks.  Where NumPy's releases differ (np.cov of a single row) every    *)
(* outcome is a possible step.                                             *)
(*                                                                         *)
(* Calls.  gmm_step, KMeans.fit and coin_probabilities are followed        *)
(* statement by statement, one call per behaviour; e_step, m_step and      *)
(* multivariate_gaussian are also called on their own, on arguments a fit  *)
(* of these small datasets does not produce.  KMeans.fit does not seed the *)
(* generator, so its initial rows are any k different rows.                *)
(***************************************************************************)
EXTENDS Integers, Sequences, FiniteSets, TLC

VARIABLES
    pc,              \* position: "idle", a place in gmm_step, or a finished call
    data,            \* argument data of the call: a sequence of 2-D points, or
                     \* (coin_probabilities) of rows of flips, 1 for heads
    num_components,  \* argument num_components (K)
    max_iters,       \* argument max_iters of gmm_step, self.max_iters of KMeans,
                     \* argument max_iter of coin_probabilities
    iteration,       \* loop variable of the call: cycles completed so far
    weights,         \* local weights: sequence of K numbers
    means,           \* local means: sequence of K points
    covariances,     \* local covariances: sequence of K 2x2 matrices
    prior_pi,        \* local prior_pi: N rows of K responsibilities
    rng,             \* state of NumPy's global generator: [seed, pos]
    result,          \* what a finished call handed back (or the exception)
    density,         \* arguments and outcome of a direct multivariate_gaussian call
    self_k,          \* KMeans: self.k
    centroids,       \* KMeans: self.centroids
    labels,          \* KMeans: self.labels
    new_centroids,   \* KMeans.fit: local new_centroids
    objective_values, \* KMeans: self.objective_values
    num_flips,       \* coin_probabilities: argument num_flips (D)
    num_coins,       \* coin_probabilities: argument num_coins
    tolerance,       \* coin_probabilities: argument tolerance
    biases,          \* coin_probabilities: local biases
    priors,          \* coin_probabilities: local priors
    responsibilities,          \* coin_probabilities: local responsibilities
    previous_log_likelihood,   \* coin_probabilities: local
    current_log_likelihood     \* coin_probabilities: local

vars == << pc, data, num_components, max_iters, iteration, weights, means,
           covariances, prior_pi, rng, result, density, self_k, centroids,
           labels, new_centroids, objective_values, num_flips, num_coins,
           tolerance, biases, priors, responsibilities,
           previous_log_likelihood, current_log_likelihood >>

\* the arguments and locals of coin_probabilities
coin_vars == << num_flips, num_coins, tolerance, biases, priors,
                responsibilities, previous_log_likelihood,
                current_log_likelihood >>

\* the fields of a KMeans object and the local of its fit
kmeans_vars == << self_k, centroids, labels, new_centroids, objective_values >>

\* the arguments and locals of the mixture functions
gmm_vars == << num_components, weights, means, covariances, prior_pi, density >>

---------------------------------------------------------------------------
(* Bounds of the model *)

\* gmm_step is called with max_iters in 0..MaxIters
MaxIters == 3

\* gmm_step is called with num_components in -1..MaxK
MaxK == 2

---------------------------------------------------------------------------
(* Floats: exact rationals and the IEEE specials *)

NaN == << 0, 0 >>

PosInf == << 1, 0 >>

NegInf == << -1, 0 >>

Abs(i) == IF i < 0 THEN -i ELSE i

\* The element of a one-element set.  Only({ e : a \in {x} }) is e with a
\* standing for the value of x: x is computed once, as an argument is when a
\* Python function is called.
Only(S) == CHOOSE v \in S : TRUE

RECURSIVE GCD(_, _)
GCD(x, y) ==
    Only({ IF b = 0 THEN a ELSE GCD(b, a % b) : a \in {x}, b \in {y} })

\* the rational n/d (d # 0) in lowest terms with a positive denominator
Norm(x, y) ==
    Only({ Only({ << (s * n) \div g, (s * d) \div g >> :
                    g \in { GCD(Abs(n), Abs(d)) },
                    s \in { IF d < 0 THEN -1 ELSE 1 } }) :
           n \in {x}, d \in {y} })

R(i) == << i, 1 >>

IsNaN(v) == v = NaN

IsFinite(v) == v[2] > 0

IsZero(v) == IsFinite(v) /\ v[1] = 0

Sign(v) == IF v[1] > 0 THEN 1 ELSE IF v[1] < 0 THEN -1 ELSE 0

Inf(s) == IF s > 0 THEN PosInf ELSE NegInf

Add(x, y) ==
    Only({ IF IsNaN(a) \/ IsNaN(b) THEN NaN
           ELSE IF IsFinite(a) /\ IsFinite(b)
                THEN Norm(a[1] * b[2] + b[1] * a[2], a[2] * b[2])
           ELSE IF IsFinite(a) THEN b
           ELSE IF IsFinite(b) THEN a
           ELSE IF a = b THEN a ELSE NaN :
           a \in {x}, b \in {y} })

Neg(x) == Only({ << -a[1], a[2] >> : a \in {x} })

Sub(a, b) == Add(a, Neg(b))

Mul(x, y) ==
    Only({ IF IsNaN(a) \/ IsNaN(b) THEN NaN
           ELSE IF IsFinite(a) /\ IsFinite(b)
                THEN Norm(a[1] * b[1], a[2] * b[2])
           ELSE IF Sign(a) * Sign(b) = 0 THEN NaN
           ELSE Inf(Sign(a) * Sign(b)) :
           a \in {x}, b \in {y} })

Div(x, y) ==
    Only({ IF IsNaN(a) \/ IsNaN(b) THEN NaN
           ELSE IF IsFinite(b)
                THEN IF b[1] = 0
                     THEN IF Sign(a) = 0 THEN NaN ELSE Inf(Sign(a))
                     ELSE IF IsFinite(a) THEN Norm(a[1] * b[2], a[2] * b[1])
                     ELSE Inf(Sign(a) * Sign(b))
           ELSE IF IsFinite(a) THEN R(0) ELSE NaN :
           a \in {x}, b \in {y} })

\* x < y; false when either is NaN, as every float comparison with NaN
Lt(x, y) ==
    \E a \in {x}, b \in {y} :
        /\ ~IsNaN(a) /\ ~IsNaN(b)
        /\ IF IsFinite(a) /\ IsFinite(b) THEN a[1] * b[2] < b[1] * a[2]
           ELSE IF IsFinite(a) THEN b = PosInf
           ELSE IF IsFinite(b) THEN a = NegInf
           ELSE a = NegInf /\ b = PosInf

Le(x, y) == \E a \in {x}, b \in {y} : ~IsNaN(a) /\ ~IsNaN(b) /\ ~Lt(b, a)

\* a NumPy array held by value: the elements are computed once
Arr(f) == f \o << >>

RECURSIVE SumTo(_, _)
\* f[1] + ... + f[n], left to right, for a sequence of floats
SumTo(f, n) == IF n = 0 THEN R(0) ELSE Add(SumTo(f, n - 1), f[n])

Sum(x) == Only({ SumTo(f, Len(f)) : f \in {x} })

---------------------------------------------------------------------------
(* Linear algebra on 2x2 matrices (np.linalg.det, np.linalg.inv) *)

Pt(a, b) == << R(a), R(b) >>

Mat(a, b, c, d) == << << R(a), R(b) >>, << R(c), R(d) >> >>

NaNMat == << << NaN, NaN >>, << NaN, NaN >> >>

\* A 2x2 array is << row, row >>; the 0-d array holding v is << v >>.
IsMatrix(m) == Len(m) = 2

MatHasNaN(x) ==
    \E m \in {x} :
        IF IsMatrix(m) THEN \E a \in 1..2, b \in 1..2 : ~IsFinite(m[a][b])
        ELSE ~IsFinite(m[1])

PtHasNaN(x) == \E p \in {x} : \E a \in 1..2 : ~IsFinite(p[a])

Det(x) ==
    Only({ Sub(Mul(m[1][1], m[2][2]), Mul(m[1][2], m[2][1])) : m \in {x} })

\* the inverse of a matrix with a non-zero determinant: adj(m) / det(m)
Inv(x) ==
    Only({ Only({ << << Div(m[2][2], dt), Div(Neg(m[1][2]), dt) >>,
                     << Div(Neg(m[2][1]), dt), Div(m[1][1], dt) >> >> :
                    dt \in { Det(m) } }) :
           m \in {x} })

\* np.dot(np.dot(diff.T, m), diff)
QuadForm(x, y) ==
    Only({ Only({ Add(Mul(row[1], diff[1]), Mul(row[2], diff[2])) :
                    row \in { Arr([b \in 1..2 |->
                                 Add(Mul(diff[1], m[1][b]),
                                     Mul(diff[2], m[2][b]))]) } }) :
           diff \in {x}, m \in {y} })

---------------------------------------------------------------------------
(* multivariate_gaussian *)

\* exp(-q/2) is 0.0 in float64 once q/2 exceeds 745 (below the least subnormal)
ExpUnderflowQ == 1490

\* exp(-q/2) is inf in float64 once -q/2 exceeds 709
ExpOverflowQ == 1419

\* The outcome of multivariate_gaussian(x, mean, cov):
\*   "LinAlgError"  np.linalg.det raised (cov is not 2-dimensional) or
\*                  np.linalg.inv raised (cov is finite and singular)
\*   "nan"          a NaN input, or sqrt of a negative determinant
\*   "zero"         exp underflowed: the density is 0.0
\*   "inf"          exp overflowed
\*   "pos"          the positive density exp(-q/2) / sqrt((2 pi)^k det)
\* the outcome, given the determinant dt and the quadratic form q
gaussian_value(dt, q) ==
    IF Lt(dt, R(0)) \/ IsNaN(q)
    THEN [outcome |-> "nan", q |-> q, det |-> dt]
    ELSE IF Lt(R(ExpUnderflowQ), q)
    THEN [outcome |-> "zero", q |-> q, det |-> dt]
    ELSE IF Lt(q, R(-ExpOverflowQ))
    THEN [outcome |-> "inf", q |-> q, det |-> dt]
    ELSE [outcome |-> "pos", q |-> q, det |-> dt]

multivariate_gaussian(x0, mean0, cov0) ==
    IF ~IsMatrix(cov0)
    THEN [outcome |-> "LinAlgError", q |-> NaN, det |-> NaN]
    ELSE
    Only({ Only({ IF MatHasNaN(cov)
                  THEN [outcome |-> "nan", q |-> NaN, det |-> dt]
                  ELSE IF IsZero(dt)
                  THEN [outcome |-> "LinAlgError", q |-> NaN, det |-> dt]
                  ELSE Only({ gaussian_value(dt, q) :
                                q \in { QuadForm(diff, Inv(cov)) } }) :
                    dt \in { Det(cov) },
                    diff \in { << Sub(x[1], mean[1]), Sub(x[2], mean[2]) >> } }) :
           x \in {x0}, mean \in {mean0}, cov \in {cov0} })

---------------------------------------------------------------------------
(* NumPy's global generator: np.random.seed, np.random.choice *)

\* the seed initialize_parameters passes to np.random.seed
Seed == 42

\* The low four bits of the first twelve 32-bit outputs of MT19937 after
\* np.random.seed(42) (1608637542, 3421126067, 4083286876, ...): all that a
\* shuffle of fewer than 16 items reads of them.
Mt42Low == << 6, 3, 12, 14, 10, 7, 12, 4, 6, 9, 2, 6 >>

\* the least 2^b - 1 that is >= i, for i < 16
Mask(i) == IF i <= 1 THEN 1 ELSE IF i <= 3 THEN 3 ELSE IF i <= 7 THEN 7 ELSE 15

RECURSIVE Interval(_, _)
\* a draw from 0..i by masked rejection, reading the stream from position pos
Interval(i0, pos0) ==
    Only({ Only({ IF v <= i THEN [value |-> v, pos |-> pos + 1]
                  ELSE Interval(i, pos + 1) :
                    v \in { Mt42Low[pos + 1] % (Mask(i) + 1) } }) :
           i \in {i0}, pos \in {pos0} })

RECURSIVE Shuffle(_, _, _)
\* Fisher-Yates from the last place down, as RandomState.shuffle does
Shuffle(arr0, i0, pos0) ==
    Only({ IF i < 1 THEN [arr |-> arr, pos |-> pos]
           ELSE Only({ Shuffle([arr EXCEPT ![i + 1] = arr[d.value + 1],
                                           ![d.value + 1] = arr[i + 1]],
                               i - 1, d.pos) :
                         d \in { Interval(i, pos) } }) :
           arr \in {arr0}, i \in {i0}, pos \in {pos0} })

\* np.random.permutation(n) right after np.random.seed(42): the permutation
\* of 0..n-1 and the number of outputs it consumed
permutation(n) == Shuffle(Arr([k \in 1..n |-> k - 1]), n - 1, 0)

\* np.random.choice(n, size, replace=False) raises ValueError
choice_raises(n, size) == (n <= 0 /\ size # 0) \/ size > n \/ size < 0

---------------------------------------------------------------------------
(* initialize_parameters *)

\* The covariance of the columns of N points in 2-D: the scatter about the
\* mean times 1 / (N - 1), the divisor replaced by 0 when N - 1 <= 0
cov_of_columns(d0) ==
    Only({ Only({ Arr([a \in 1..2 |-> Arr([b \in 1..2 |->
                      Mul(Sum(Arr([n \in 1..N |->
                                     Mul(Sub(d[n][a], avg[a]),
                                         Sub(d[n][b], avg[b]))])),
                          Div(R(1), R(fact)))])]) :
                    avg \in { Arr([a \in 1..2 |->
                                 Div(Sum(Arr([n \in 1..N |-> d[n][a]])),
                                     R(N))]) },
                    fact \in { IF N - 1 <= 0 THEN 0 ELSE N - 1 } }) :
           d \in {d0}, N \in { Len(d0) } })

\* The variance of the two entries of one row, divisor 2 - 1, as a 0-d array
variance_of_row(x) ==
    Only({ << Add(Mul(Sub(x[1], avg), Sub(x[1], avg)),
                  Mul(Sub(x[2], avg), Sub(x[2], avg))) >> :
           avg \in { Div(Add(x[1], x[2]), R(2)) } })

\* np.cov(data, rowvar=False): the outcomes NumPy's releases produce.  For a
\* single row, releases before 2.0 do not transpose it and return the
\* variance of its entries; later ones return the covariance of the columns.
np_cov(d) ==
    IF Len(d) = 1 THEN { cov_of_columns(d), variance_of_row(d[1]) }
    ELSE { cov_of_columns(d) }

\* the outcomes of initialize_parameters(d0, K0), one per outcome of np.cov
initialize_parameters(d0, K0) ==
    IF choice_raises(Len(d0), K0)
    THEN { [raised |-> TRUE, rng |-> [seed |-> Seed, pos |-> 0],
            means |-> << >>, covariance |-> << >>, weights |-> << >>] }
    ELSE { [raised |-> FALSE,
            rng |-> [seed |-> Seed, pos |-> sh.pos],
            means |-> Arr([k \in 1..K |-> d[sh.arr[k] + 1]]),
            covariance |-> Arr([k \in 1..K |-> cv]),
            weights |-> Arr([k \in 1..K |-> Div(R(1), R(K))])] :
           d \in {d0}, K \in {K0}, sh \in { permutation(Len(d0)) },
           cv \in np_cov(d0) }

---------------------------------------------------------------------------
(* e_step *)

\* A density as a float, up to the factor its (q, det) names: the factor is
\* common to the positive terms of a row and cancels in the normalisation.
Coef(g) ==
    CASE g.outcome = "nan" -> NaN
      [] g.outcome = "zero" -> R(0)
      [] g.outcome = "inf" -> PosInf
      [] OTHER -> R(1)

\* prior_pi before it is normalised: weights[i] * multivariate_gaussian(...)
Unnormalised(d0, w0, m0, c0, K) ==
    Only({ Arr([n \in 1..Len(d) |->
               Arr([i \in 1..K |->
                   Mul(w[i], Coef(multivariate_gaussian(d[n], m[i], c[i])))])]) :
           d \in {d0}, w \in {w0}, m \in {m0}, c \in {c0} })

\* prior_pi /= prior_pi.sum(1)[:, np.newaxis]
NormaliseRows(u0) ==
    Only({ Arr([n \in 1..Len(u) |->
               Only({ Arr([i \in 1..Len(u[n]) |-> Div(u[n][i], total)]) :
                        total \in { Sum(u[n]) } })]) :
           u \in {u0} })

e_step(d0, w0, m0, c0, K) ==
    Only({ [raised |-> \E n \in 1..Len(d), i \in 1..K :
                          multivariate_gaussian(d[n], m[i], c[i]).outcome
                             = "LinAlgError",
            prior_pi |-> NormaliseRows(Unnormalised(d, w, m, c, K))] :
           d \in {d0}, w \in {w0}, m \in {m0}, c \in {c0} })

\* The positive terms of every row have the same (q, det): the rows whose
\* normalisation the model computes exactly.
Commensurable(d0, w0, m0, c0, K) ==
    \E d \in {d0}, w \in {w0}, m \in {m0}, c \in {c0} :
        \A n \in 1..Len(d) : \A i \in 1..K, j \in 1..K :
            \E gi \in { multivariate_gaussian(d[n], m[i], c[i]) },
               gj \in { multivariate_gaussian(d[n], m[j], c[j]) } :
                (/\ gi.outcome = "pos" /\ gj.outcome = "pos"
                 /\ ~IsZero(w[i]) /\ ~IsZero(w[j]))
                => (gi.q = gj.q /\ gi.det = gj.det)

---------------------------------------------------------------------------
(* m_step *)

\* n_k = prior_pi.sum(axis=0)
n_k(p0, K) ==
    Only({ Arr([i \in 1..K |-> Sum(Arr([n \in 1..Len(p) |-> p[n][i]]))]) :
           p \in {p0} })

\* m_step's weights without the division by data.shape[0]
m_step_weights_counts(d0, p0, K) == n_k(p0, K)

\* weights = n_k / data.shape[0]
m_step_weights(d0, p0, K) ==
    Only({ Arr([i \in 1..K |-> Div(nk[i], R(Len(d)))]) :
           d \in {d0}, nk \in { n_k(p0, K) } })

\* means = np.dot(prior_pi.T, data) / n_k[:, np.newaxis]
m_step_means(d0, p0, K) ==
    Only({ Arr([i \in 1..K |-> Arr([a \in 1..2 |->
               Div(Sum(Arr([n \in 1..Len(d) |-> Mul(p[n][i], d[n][a])])),
                   nk[i])])]) :
           d \in {d0}, p \in {p0}, nk \in { n_k(p0, K) } })

\* m_step's covariance with np.cov's divisor, n_k[i] - 1, in place of n_k[i]
m_step_covariance_unbiased(d0, p0, K) ==
    Only({ Arr([i \in 1..K |-> Arr([a \in 1..2 |-> Arr([b \in 1..2 |->
               Div(Sum(Arr([n \in 1..Len(d) |->
                          Mul(Mul(Sub(d[n][a], mu[i][a]), p[n][i]),
                              Sub(d[n][b], mu[i][b]))])),
                   Sub(nk[i], R(1)))])])]) :
           d \in {d0}, p \in {p0},
           mu \in { m_step_means(d0, p0, K) }, nk \in { n_k(p0, K) } })

\* covariance[i] = np.dot((data - means[i]).T * prior_pi[:, i], data - means[i]) / n_k[i]
m_step_covariance(d0, p0, K) ==
    Only({ Arr([i \in 1..K |-> Arr([a \in 1..2 |-> Arr([b \in 1..2 |->
               Div(Sum(Arr([n \in 1..Len(d) |->
                          Mul(Mul(Sub(d[n][a], mu[i][a]), p[n][i]),
                              Sub(d[n][b], mu[i][b]))])),
                   nk[i])])])]) :
           d \in {d0}, p \in {p0},
           mu \in { m_step_means(d0, p0, K) }, nk \in { n_k(p0, K) } })

m_step(d0, p0, K) ==
    Only({ [weights |-> m_step_weights(d, p, K),
            means |-> m_step_means(d, p, K),
            covariance |-> m_step_covariance(d, p, K)] :
           d \in {d0}, p \in {p0} })

---------------------------------------------------------------------------
(* KMeans: cluster_assignment, update_centroids, objective, np.allclose *)

\* cdist(data, centroids, 'euclidean'), squared: the N x k matrix of squared
\* distances.  The square root is increasing, so the argmin and the min of a
\* row are those of the distances, and min_distances ** 2 is the least entry
\* of the row (NaN stays NaN).
cdist_squared(d0, c0) ==
    Only({ Arr([n \in 1..Len(d) |-> Arr([j \in 1..Len(c) |->
                Add(Mul(Sub(d[n][1], c[j][1]), Sub(d[n][1], c[j][1])),
                    Mul(Sub(d[n][2], c[j][2]), Sub(d[n][2], c[j][2])))])]) :
           d \in {d0}, c \in {c0} })

\* np.argmin of one row, 0-based: the first NaN if there is one, else the
\* first least entry
argmin(row0) ==
    Only({ IF \E j \in 1..Len(row) : IsNaN(row[j])
           THEN (CHOOSE j \in 1..Len(row) :
                    /\ IsNaN(row[j])
                    /\ \A h \in 1..(j - 1) : ~IsNaN(row[h])) - 1
           ELSE (CHOOSE j \in 1..Len(row) :
                    /\ \A h \in 1..Len(row) : Le(row[j], row[h])
                    /\ \A h \in 1..(j - 1) : Lt(row[j], row[h])) - 1 :
           row \in {row0} })

\* np.min of one row: NaN if there is one, else the least entry
min_of_row(row0) ==
    Only({ IF \E j \in 1..Len(row) : IsNaN(row[j]) THEN NaN
           ELSE row[argmin(row) + 1] :
           row \in {row0} })

\* np.argmin(cdist(data, centroids), axis=1)
cluster_assignment(d0, c0) ==
    Only({ Arr([n \in 1..Len(dist) |-> argmin(dist[n])]) :
           dist \in { cdist_squared(d0, c0) } })

\* data[labels == j].mean(axis=0): the mean of the points labelled j, 0/0 =
\* NaN in both coordinates when there is none
mean_of_cluster(d0, lab0, j0) ==
    Only({ Only({ Arr([a \in 1..2 |->
                      Div(Sum(Arr([n \in 1..Len(d) |->
                                     IF member[n] THEN d[n][a] ELSE R(0)])),
                          R(count))]) :
                    count \in { Cardinality({ n \in 1..Len(d) : member[n] }) } }) :
           d \in {d0},
           member \in { Arr([n \in 1..Len(d0) |-> lab0[n] = j0]) } })

\* np.array([data[labels == i].mean(axis=0) for i in range(self.k)])
update_centroids(d0, lab0, k0) ==
    Arr([j \in 1..k0 |-> mean_of_cluster(d0, lab0, j - 1)])

\* np.sum(np.min(cdist(data, centroids), axis=1) ** 2)
objective(d0, c0) ==
    Only({ Sum(Arr([n \in 1..Len(dist) |-> min_of_row(dist[n])])) :
           dist \in { cdist_squared(d0, c0) } })

AbsF(v) == << Abs(v[1]), v[2] >>

\* the defaults of np.allclose: rtol = 1e-05, atol = 1e-08
Rtol == << 1, 100000 >>

Atol == << 1, 100000000 >>

\* |a - b| <= atol + rtol * |b|, false when either is NaN.  Equal numbers are
\* close; numbers at least 1/50 apart with |b| <= 1000 are not, the right-hand
\* side being at most 0.01000001.  The general case is the comparison itself.
isclose(a0, b0) ==
    \E a \in {a0}, b \in {b0} :
        IF IsNaN(a) \/ IsNaN(b) THEN FALSE
        ELSE IF a = b THEN TRUE
        ELSE IF IsFinite(a) /\ IsFinite(b) /\ Le(AbsF(b), R(1000))
                /\ Le(<< 1, 50 >>, AbsF(Sub(a, b))) THEN FALSE
        ELSE Le(AbsF(Sub(a, b)), Add(Atol, Mul(Rtol, AbsF(b))))

\* np.allclose of two k x 2 arrays
allclose(x0, y0) ==
    \E x \in {x0}, y \in {y0} :
        \A j \in 1..Len(x) : isclose(x[j][1], y[j][1]) /\ isclose(x[j][2], y[j][2])

\* the index arrays np.random.choice(n, size, replace=False) can return: size
\* different indices in any order, whatever the state of the generator
choice(n, size) ==
    { s \in [1..size -> 0..(n - 1)] :
        \A a, b \in 1..size : s[a] = s[b] => a = b }

---------------------------------------------------------------------------
(* The coin mixture: compute_responsibilities, update_parameters,          *)
(* log_likelihood.  A log-likelihood is held as the record [exp |-> P] of  *)
(* the number P it is the logarithm of: log 0 is -inf and log NaN is NaN,  *)
(* a sum of logarithms is the logarithm of the product, and two finite     *)
(* log-likelihoods differ by less than t exactly when the larger P is less *)
(* than e^t times the smaller.                                             *)

\* np.log(P): NaN for a negative P
Log(P) == [exp |-> IF Lt(P, R(0)) THEN NaN ELSE P]

\* -np.inf, as a log-likelihood
MinusInfinity == Log(R(0))

\* a log-likelihood of zero: log 1
ZeroLogLikelihood == Log(R(1))

RECURSIVE Pow(_, _)
\* x ** n for a natural n, with x ** 0 = 1
Pow(x, n) == IF n = 0 THEN R(1) ELSE Mul(Pow(x, n - 1), x)

RECURSIVE Comb(_, _)
\* the binomial coefficient
Comb(n, h) == IF h = 0 THEN 1 ELSE (Comb(n - 1, h - 1) * n) \div h

\* binom.pmf(h, D, p): NaN for a p that is NaN or outside [0, 1]
binom_pmf(h0, D0, p0) ==
    Only({ IF ~(Le(R(0), p) /\ Le(p, R(1))) THEN NaN
           ELSE IF h < 0 \/ h > D THEN R(0)
           ELSE Mul(Mul(R(Comb(D, h)), Pow(p, h)), Pow(Sub(R(1), p), D - h)) :
           h \in {h0}, D \in {D0}, p \in {p0} })

\* np.sum(data, axis=1): the number of heads of every row, an integer
num_heads(d0) ==
    Only({ Arr([n \in 1..Len(d) |-> Sum(d[n])[1]]) : d \in {d0} })

\* entry i of a 1-D array broadcast against a longer one
At(x, i) == IF Len(x) = 1 THEN x[1] ELSE x[i]

\* likelihoods * prior cannot be broadcast: ValueError
broadcast_raises(bias, prior) ==
    Len(bias) # Len(prior) /\ Len(bias) # 1 /\ Len(prior) # 1

\* binom.pmf(num_heads, num_flips, bias) * prior: N rows, one entry per coin
weighted_likelihoods(d0, D0, bias0, prior0) ==
    Only({ Arr([n \in 1..Len(h) |-> Arr([c \in 1..C |->
                Mul(binom_pmf(h[n], D, At(bias, c)), At(prior, c))])]) :
           h \in { num_heads(d0) }, D \in {D0}, bias \in {bias0},
           prior \in {prior0},
           C \in { IF Len(bias0) > Len(prior0) THEN Len(bias0)
                   ELSE Len(prior0) } })

\* every row of the weighted likelihoods divided by its sum
compute_responsibilities(d0, D0, bias0, prior0) ==
    Only({ Arr([n \in 1..Len(w) |->
                Only({ Arr([c \in 1..Len(w[n]) |-> Div(w[n][c], total)]) :
                       total \in { Sum(w[n]) } })]) :
           w \in { weighted_likelihoods(d0, D0, bias0, prior0) } })

\* np.sum(responsibilities, axis=0)
column_sums(r0) ==
    Only({ Arr([c \in 1..Len(r[1]) |->
                  Sum(Arr([n \in 1..Len(r) |-> r[n][c]]))]) :
           r \in {r0} })

\* updated_biases = responsibilities.T . num_heads / (D * column sums);
\* updated_priors = the column means
update_parameters(d0, D0, r0) ==
    Only({ [biases |->
              Arr([c \in 1..Len(col) |->
                     Div(Sum(Arr([n \in 1..Len(r) |-> Mul(r[n][c], R(h[n]))])),
                         Mul(R(D), col[c]))]),
            priors |->
              Arr([c \in 1..Len(col) |-> Div(col[c], R(Len(r)))])] :
           h \in { num_heads(d0) }, D \in {D0}, r \in {r0},
           col \in { column_sums(r0) } })

RECURSIVE ProdTo(_, _)
\* f[1] * ... * f[n], left to right
ProdTo(f, n) == IF n = 0 THEN R(1) ELSE Mul(ProdTo(f, n - 1), f[n])

\* np.sum(np.log(total_likelihood)): the logarithm of the product
log_likelihood(d0, D0, bias0, prior0) ==
    Only({ Log(ProdTo(total, Len(total))) :
           total \in { Only({ Arr([n \in 1..Len(w) |-> Sum(w[n])]) :
                               w \in { weighted_likelihoods(d0, D0, bias0,
                                                            prior0) } }) } })

\* A tolerance t >= 0 with rational bounds of e^t: exp_lo <= e^t <= exp_hi.
\* 1e-4 is the default; e^0.0001 = 1.000100005 and e^0.5 = 1.6487.
Tolerances ==
    { [value |-> R(0), exp_lo |-> R(1), exp_hi |-> R(1)],
      [value |-> << 1, 10000 >>, exp_lo |-> << 10001, 10000 >>,
       exp_hi |-> << 21, 20 >>],
      [value |-> << 1, 2 >>, exp_lo |-> << 3, 2 >>, exp_hi |-> << 2, 1 >>] }

\* tolerance=1e-4, the default of coin_probabilities
DefaultTolerance == CHOOSE t \in Tolerances : t.value = << 1, 10000 >>

\* the larger of P / Q and Q / P, for positive finite P and Q
Ratio(P0, Q0) ==
    Only({ IF Lt(P, Q) THEN Div(Q, P) ELSE Div(P, Q) : P \in {P0}, Q \in {Q0} })

\* np.abs(cur - prev) < tol, as the set of its possible values.  NaN or +inf
\* on either side, -inf minus -inf (NaN) and an infinite difference are not less
\* than tol.  Two finite values are compared by the ratio: equal values differ
\* by 0, a ratio below exp_lo is below e^t, one from exp_hi on is not; a ratio
\* between the bounds is left open.
within_tolerance(cur0, prev0, tol0) ==
    Only({ IF ~IsFinite(P) \/ ~IsFinite(Q) THEN { FALSE }
           ELSE IF IsZero(P) \/ IsZero(Q) THEN { FALSE }
           ELSE IF P = Q THEN { Lt(R(0), tol.value) }
           ELSE Only({ IF Le(tol.exp_hi, rho) THEN { FALSE }
                       ELSE IF Lt(rho, tol.exp_lo) THEN { TRUE }
                       ELSE { TRUE, FALSE } :
                       rho \in { Ratio(P, Q) } }) :
           P \in { cur0.exp }, Q \in { prev0.exp }, tol \in {tol0} })

---------------------------------------------------------------------------
(* The inputs explored *)

\* the flip tables coin_probabilities is called with, num_flips columns each
CoinDatasets ==
    { << << R(1), R(1) >> >>,
      << << R(1) >>, << R(0) >> >>,
      << << R(1), R(1) >>, << R(0), R(0) >> >>,
      << << R(1), R(0) >>, << R(1), R(1) >> >> }

\* the values np.random.rand draws for a bias, all in [0, 1)
Rand == { R(0), << 1, 2 >> }

\* One cycle of coin_probabilities: E-step, then M-step
coin_cycle(d0, D0, bias0, prior0) ==
    update_parameters(d0, D0, compute_responsibilities(d0, D0, bias0, prior0))

\* the priors coin_probabilities starts from
InitialPriors == << << 33, 100 >>, << 33, 100 >>, << 33, 100 >> >>

\* The first cycle already reaches a fixed point of the iteration: every later
\* cycle reproduces the same biases and priors, and the same log-likelihood.
Settles(d0, D0, bias0) ==
    \E first \in { coin_cycle(d0, D0, bias0, InitialPriors) } :
        coin_cycle(d0, D0, first.biases, first.priors) = first

\* The initial biases explored.  Where the iteration keeps moving, the exact
\* likelihood outgrows the integers in the third cycle, so such a start is
\* followed for two cycles.
CoinInScope(d0, D0, bias0, mi) ==
    IF mi <= 2 THEN TRUE ELSE Settles(d0, D0, bias0)

\* the datasets KMeans.fit is called with
KMeansDatasets ==
    { << >>,
      << Pt(1, 2) >>,
      << Pt(0, 0), Pt(1, 0), Pt(4, 0) >>,
      << Pt(0, 0), Pt(0, 0), Pt(2, 2) >>,
      << Pt(0, 0), Pt(2, 0), Pt(0, 2), Pt(5, 5) >> }

\* the datasets gmm_step is called with
Datasets ==
    { << >>,
      << Pt(1, 2) >>,
      << Pt(0, 0), Pt(1, 1) >>,
      << Pt(0, 0), Pt(1, 0), Pt(0, 1) >>,
      << Pt(0, 0), Pt(1, 0), Pt(2, 0) >>,
      << Pt(0, 0), Pt(2, 1), Pt(1, 2), Pt(2, 1) >>,
      << Pt(0, 0), Pt(2, 0), Pt(0, 2), Pt(2, 2) >>,
      << Pt(0, 0), Pt(3, 0), Pt(0, 3), Pt(1, 1), Pt(1, 1) >> }

\* gmm_step(d, K) is explored when its first E-step has commensurable rows
InScope(d, K) ==
    \A ip \in initialize_parameters(d, K) :
        IF ip.raised THEN TRUE
        ELSE Commensurable(d, ip.weights, ip.means, ip.covariance, K)

\* the process-wide generator states a call may find
RngStates == { [seed |-> s, pos |-> p] : s \in {0, Seed}, p \in {0, 2} }

\* the arguments of a direct multivariate_gaussian call
GaussPoints == { Pt(0, 0), Pt(1, 0), Pt(40, 0) }

GaussMeans == { Pt(0, 0), Pt(1, 0) }

GaussCovs ==
    { Mat(1, 0, 0, 1), Mat(2, 1, 1, 2), Mat(1, 1, 1, 1), Mat(1, 2, 2, 1),
      Mat(0, 0, 0, 0), NaNMat }

\* the arguments of a direct e_step call
EStepData ==
    { << Pt(0, 1) >>, << Pt(0, 1), Pt(0, 40) >>,
      << Pt(0, 1), Pt(0, -1), Pt(0, 40) >> }

EStepParams ==
    { [weights |-> w, means |-> m, covariance |-> c] :
        w \in { << R(1) >> }, m \in { << Pt(0, 0) >> },
        c \in { << Mat(1, 0, 0, 1) >>, << Mat(1, 2, 2, 1) >> } }
    \cup
    { [weights |-> w, means |-> m, covariance |-> c] :
        w \in { << Norm(1, 2), Norm(1, 2) >>, << Norm(1, 3), Norm(2, 3) >>,
                << R(1), R(0) >> },
        m \in { << Pt(1, 0), Pt(-1, 0) >>, << Pt(0, 0), Pt(0, 0) >> },
        c \in { << Mat(1, 0, 0, 1), Mat(1, 0, 0, 1) >>,
                << Mat(2, 1, 1, 2), Mat(2, -1, -1, 2) >>,
                << Mat(1, 0, 0, 1), Mat(1, 1, 1, 1) >> } }

\* the arguments of a direct m_step call: every row sums to 1
MStepData ==
    { << Pt(0, 0), Pt(1, 0), Pt(0, 1) >>, << Pt(0, 0), Pt(2, 2) >> }

MStepRows ==
    { << R(1) >>,
      << R(1), R(0) >>, << R(0), R(1) >>, << Norm(1, 2), Norm(1, 2) >>,
      << Norm(1, 4), Norm(3, 4) >> }

MStepMatrices(d) ==
    { p \in [1..Len(d) -> MStepRows] :
        \A n \in 1..Len(d) : Len(p[n]) = Len(p[1]) }

---------------------------------------------------------------------------
(* The state machine *)

NoResult == [kind |-> "none", value |-> << >>]

NoCall == [outcome |-> "none", x |-> << >>, mean |-> << >>, cov |-> << >>]

FitPcs == { "init", "e_step", "m_step", "return", "returned", "raised" }

Init ==
    /\ pc = "idle"
    /\ data = << >>
    /\ num_components = 0
    /\ max_iters = 0
    /\ iteration = 0
    /\ weights = << >>
    /\ means = << >>
    /\ covariances = << >>
    /\ prior_pi = << >>
    /\ rng \in RngStates
    /\ result = NoResult
    /\ density = NoCall
    /\ self_k = 0
    /\ centroids = << >>
    /\ labels = << >>
    /\ new_centroids = << >>
    /\ objective_values = << >>
    /\ num_flips = 0
    /\ num_coins = 0
    /\ tolerance = DefaultTolerance
    /\ biases = << >>
    /\ priors = << >>
    /\ responsibilities = << >>
    /\ previous_log_likelihood = MinusInfinity
    /\ current_log_likelihood = MinusInfinity

\* gmm_step(data, num_components, max_iters) is entered
CallGmmStep ==
    /\ pc = "idle"
    /\ \E d \in Datasets, K \in -1..MaxK, mi \in 0..MaxIters :
          /\ InScope(d, K)
          /\ data' = d
          /\ num_components' = K
          /\ max_iters' = mi
    /\ pc' = "init"
    /\ UNCHANGED << iteration, weights, means, covariances, prior_pi, rng,
                    result, density >>
    /\ UNCHANGED kmeans_vars
    /\ UNCHANGED coin_vars

\* the loop with an inclusive bound: range(max_iters + 1)
ForLoopInclusive(it, mi) == IF it <= mi THEN "e_step" ELSE "return"

\* for iteration in range(max_iters): the body runs again while it < mi
ForLoop(it, mi) == IF it < mi THEN "e_step" ELSE "return"

\* means, covariances, weights = initialize_parameters(data, num_components)
InitializeParameters ==
    /\ pc = "init"
    /\ \E ip \in initialize_parameters(data, num_components) :
           /\ rng' = ip.rng
           /\ IF ip.raised
              THEN /\ pc' = "raised"
                   /\ result' = [kind |-> "ValueError", value |-> << >>]
                   /\ UNCHANGED << weights, means, covariances >>
              ELSE /\ pc' = ForLoop(0, max_iters)
                   /\ weights' = ip.weights
                   /\ means' = ip.means
                   /\ covariances' = ip.covariance
                   /\ UNCHANGED result
    /\ iteration' = 0
    /\ UNCHANGED << data, num_components, max_iters, prior_pi, density >>
    /\ UNCHANGED kmeans_vars
    /\ UNCHANGED coin_vars

\* an E-step that also writes the mixing weights back: the column means of
\* the responsibilities it has just computed
EStepUpdatingWeights ==
    /\ pc = "e_step"
    /\ \E es \in { e_step(data, weights, means, covariances,
                             num_components) } :
           IF es.raised
           THEN /\ pc' = "raised"
                /\ result' = [kind |-> "LinAlgError", value |-> << >>]
                /\ UNCHANGED << prior_pi, weights >>
           ELSE /\ pc' = "m_step"
                /\ prior_pi' = es.prior_pi
                /\ weights' = m_step_weights(data, es.prior_pi,
                                             num_components)
                /\ UNCHANGED result
    /\ UNCHANGED << data, num_components, max_iters, iteration, means,
                    covariances, rng, density >>
    /\ UNCHANGED kmeans_vars
    /\ UNCHANGED coin_vars

\* prior_pi = e_step(data, weights, means, covariances, num_components)
EStep ==
    /\ pc = "e_step"
    /\ \E es \in { e_step(data, weights, means, covariances,
                             num_components) } :
           IF es.raised
           THEN /\ pc' = "raised"
                /\ result' = [kind |-> "LinAlgError", value |-> << >>]
                /\ UNCHANGED prior_pi
           ELSE /\ pc' = "m_step"
                /\ prior_pi' = es.prior_pi
                /\ UNCHANGED result
    /\ UNCHANGED << data, num_components, max_iters, iteration, weights,
                    means, covariances, rng, density >>
    /\ UNCHANGED kmeans_vars
    /\ UNCHANGED coin_vars

\* the M-step of a loop that breaks once a cycle leaves the parameters unchanged
MStepUntilUnchanged ==
    /\ pc = "m_step"
    /\ \E ms \in { m_step(data, prior_pi, num_components) } :
           /\ weights' = ms.weights
           /\ means' = ms.means
           /\ covariances' = ms.covariance
           /\ pc' = IF ms = [weights |-> weights, means |-> means,
                             covariance |-> covariances]
                    THEN "return"
                    ELSE ForLoop(iteration + 1, max_iters)
    /\ iteration' = iteration + 1
    /\ UNCHANGED << data, num_components, max_iters, prior_pi, rng, result,
                    density >>
    /\ UNCHANGED kmeans_vars
    /\ UNCHANGED coin_vars

\* weights, means, covariances = m_step(data, prior_pi, num_components)
MStep ==
    /\ pc = "m_step"
    /\ \E ms \in { m_step(data, prior_pi, num_components) } :
           /\ weights' = ms.weights
           /\ means' = ms.means
           /\ covariances' = ms.covariance
    /\ iteration' = iteration + 1
    /\ pc' = ForLoop(iteration + 1, max_iters)
    /\ UNCHANGED << data, num_components, max_iters, prior_pi, rng, result,
                    density >>
    /\ UNCHANGED kmeans_vars
    /\ UNCHANGED coin_vars

\* return weights, means, covariances
Return ==
    /\ pc = "return"
    /\ pc' = "returned"
    /\ result' = [kind |-> "returned",
                  value |-> << weights, means, covariances >>]
    /\ UNCHANGED << data, num_components, max_iters, iteration, weights,
                    means, covariances, prior_pi, rng, density >>
    /\ UNCHANGED kmeans_vars
    /\ UNCHANGED coin_vars

\* multivariate_gaussian(x, mean, cov) called on its own
CallMultivariateGaussian ==
    /\ pc = "idle"
    /\ \E x \in GaussPoints, mean \in GaussMeans, cov \in GaussCovs :
          \E g \in { multivariate_gaussian(x, mean, cov) } :
              /\ density' = [outcome |-> g.outcome, x |-> x, mean |-> mean,
                             cov |-> cov]
              /\ pc' = IF g.outcome = "LinAlgError" THEN "gaussian_raised"
                       ELSE "gaussian_done"
    /\ UNCHANGED << data, num_components, max_iters, iteration, weights,
                    means, covariances, prior_pi, rng, result >>
    /\ UNCHANGED kmeans_vars
    /\ UNCHANGED coin_vars

\* e_step(data, weights, means, covariance, num_components) called on its own
CallEStep ==
    /\ pc = "idle"
    /\ \E d \in EStepData, a \in EStepParams :
          \E K \in { Len(a.weights) } :
          \E es \in { e_step(d, a.weights, a.means, a.covariance, K) } :
              /\ Commensurable(d, a.weights, a.means, a.covariance, K)
              /\ data' = d
              /\ num_components' = K
              /\ weights' = a.weights
              /\ means' = a.means
              /\ covariances' = a.covariance
              /\ IF es.raised
                 THEN /\ pc' = "e_step_raised"
                      /\ UNCHANGED prior_pi
                 ELSE /\ pc' = "e_step_done"
                      /\ prior_pi' = es.prior_pi
    /\ UNCHANGED << max_iters, iteration, rng, result, density >>
    /\ UNCHANGED kmeans_vars
    /\ UNCHANGED coin_vars

\* m_step(data, prior_pi, num_components) called on its own
CallMStep ==
    /\ pc = "idle"
    /\ \E d \in MStepData :
          \E p \in MStepMatrices(d) :
             \E K \in { Len(p[1]) } :
             \E ms \in { m_step(d, p, K) } :
                 /\ data' = d
                 /\ num_components' = K
                 /\ prior_pi' = p
                 /\ weights' = ms.weights
                 /\ means' = ms.means
                 /\ covariances' = ms.covariance
    /\ pc' = "m_step_done"
    /\ UNCHANGED << max_iters, iteration, rng, result, density >>
    /\ UNCHANGED kmeans_vars
    /\ UNCHANGED coin_vars

\* the positions in KMeans.fit; None is the empty tuple (a labels array is
\* never empty: argmin of no points raises)
KMeansPcs == { "km_init", "km_assign", "km_update", "km_objective", "km_test",
               "km_returned", "km_raised" }

\* KMeans(k, max_iters).fit(data) is entered
CallFit ==
    /\ pc = "idle"
    /\ \E d \in KMeansDatasets, k \in 1..MaxK, mi \in 0..MaxIters :
          /\ data' = d
          /\ self_k' = k
          /\ max_iters' = mi
    /\ pc' = "km_init"
    /\ centroids' = << >>
    /\ labels' = << >>
    /\ objective_values' = << >>
    /\ UNCHANGED << iteration, new_centroids, rng, result >>
    /\ UNCHANGED gmm_vars
    /\ UNCHANGED coin_vars

\* for i in range(self.max_iters): the body runs again while it < mi
KMeansForLoop(it, mi) == IF it < mi THEN "km_assign" ELSE "km_returned"

\* self.centroids = self.initialize_centroids(data)
InitializeCentroids ==
    /\ pc = "km_init"
    /\ IF choice_raises(Len(data), self_k)
       THEN /\ pc' = "km_raised"
            /\ result' = [kind |-> "ValueError", value |-> << >>]
            /\ UNCHANGED << centroids, rng >>
       ELSE /\ \E indices \in choice(Len(data), self_k) :
                  centroids' = Arr([j \in 1..self_k |-> data[indices[j] + 1]])
            /\ rng' = [rng EXCEPT !.pos = @ + 1]
            /\ pc' = KMeansForLoop(0, max_iters)
            /\ UNCHANGED result
    /\ iteration' = 0
    /\ UNCHANGED << data, max_iters, self_k, labels, new_centroids,
                    objective_values >>
    /\ UNCHANGED gmm_vars
    /\ UNCHANGED coin_vars

\* self.labels = self.cluster_assignment(data, self.centroids)
ClusterAssignment ==
    /\ pc = "km_assign"
    /\ labels' = cluster_assignment(data, centroids)
    /\ pc' = "km_update"
    /\ UNCHANGED << data, max_iters, iteration, rng, result, self_k, centroids,
                    new_centroids, objective_values >>
    /\ UNCHANGED gmm_vars
    /\ UNCHANGED coin_vars

\* new_centroids = self.update_centroids(data, self.labels)
UpdateCentroids ==
    /\ pc = "km_update"
    /\ new_centroids' = update_centroids(data, labels, self_k)
    /\ pc' = "km_objective"
    /\ UNCHANGED << data, max_iters, iteration, rng, result, self_k, centroids,
                    labels, objective_values >>
    /\ UNCHANGED gmm_vars
    /\ UNCHANGED coin_vars

\* objective_value = self.objective(data);
\* self.objective_values.append(objective_value)
Objective ==
    /\ pc = "km_objective"
    /\ objective_values' = Append(objective_values, objective(data, centroids))
    /\ pc' = "km_test"
    /\ UNCHANGED << data, max_iters, iteration, rng, result, self_k, centroids,
                    labels, new_centroids >>
    /\ UNCHANGED gmm_vars
    /\ UNCHANGED coin_vars

\* if np.allclose(self.centroids, new_centroids): break
\* self.centroids = new_centroids
ConvergenceTest ==
    /\ pc = "km_test"
    /\ IF allclose(centroids, new_centroids)
       THEN /\ pc' = "km_returned"
            /\ UNCHANGED << centroids, iteration >>
       ELSE /\ centroids' = new_centroids
            /\ iteration' = iteration + 1
            /\ pc' = KMeansForLoop(iteration + 1, max_iters)
    /\ UNCHANGED << data, max_iters, rng, result, self_k, labels,
                    new_centroids, objective_values >>
    /\ UNCHANGED gmm_vars
    /\ UNCHANGED coin_vars

\* the positions in coin_probabilities
CoinPcs == { "coin_init", "coin_e_step", "coin_m_step", "coin_ll",
             "coin_test", "coin_return", "coin_returned", "coin_raised" }

\* coin_probabilities(data, num_flips, num_coins, max_iter, tolerance) is
\* entered
CallCoinProbabilities ==
    /\ pc = "idle"
    /\ \E d \in CoinDatasets, nc \in 1..3, mi \in 0..MaxIters,
          tol \in Tolerances :
          /\ data' = d
          /\ num_flips' = Len(d[1])
          /\ num_coins' = nc
          /\ max_iters' = mi
          /\ tolerance' = tol
    /\ pc' = "coin_init"
    /\ UNCHANGED << iteration, rng, result, biases, priors, responsibilities,
                    previous_log_likelihood, current_log_likelihood >>
    /\ UNCHANGED gmm_vars
    /\ UNCHANGED kmeans_vars

\* for i in range(max_iter): the body runs again while it < mi
CoinForLoop(it, mi) == IF it < mi THEN "coin_e_step" ELSE "coin_return"

\* previous_log_likelihood = -np.inf
InitialPreviousLogLikelihood == MinusInfinity

\* biases = np.random.rand(num_coins); priors = np.array([0.33, 0.33, 0.33]);
\* previous_log_likelihood = -np.inf
CoinInitialise ==
    /\ pc = "coin_init"
    /\ \E b \in [1..num_coins -> Rand] :
           /\ IF broadcast_raises(b, InitialPriors) THEN TRUE
              ELSE CoinInScope(data, num_flips, b, max_iters)
           /\ biases' = Arr(b)
    /\ priors' = InitialPriors
    /\ previous_log_likelihood' = InitialPreviousLogLikelihood
    /\ rng' = [rng EXCEPT !.pos = @ + 2 * num_coins]
    /\ iteration' = 0
    /\ pc' = CoinForLoop(0, max_iters)
    /\ UNCHANGED << data, max_iters, result, num_flips, num_coins, tolerance,
                    responsibilities, current_log_likelihood >>
    /\ UNCHANGED gmm_vars
    /\ UNCHANGED kmeans_vars

\* responsibilities = compute_responsibilities(data, num_flips, biases, priors)
ComputeResponsibilities ==
    /\ pc = "coin_e_step"
    /\ IF broadcast_raises(biases, priors)
       THEN /\ pc' = "coin_raised"
            /\ result' = [kind |-> "ValueError", value |-> << >>]
            /\ UNCHANGED responsibilities
       ELSE /\ responsibilities' =
                  compute_responsibilities(data, num_flips, biases, priors)
            /\ pc' = "coin_m_step"
            /\ UNCHANGED result
    /\ UNCHANGED << data, max_iters, iteration, rng, num_flips, num_coins,
                    tolerance, biases, priors, previous_log_likelihood,
                    current_log_likelihood >>
    /\ UNCHANGED gmm_vars
    /\ UNCHANGED kmeans_vars

\* biases, priors = update_parameters(data, num_flips, responsibilities)
UpdateParameters ==
    /\ pc = "coin_m_step"
    /\ \E up \in { update_parameters(data, num_flips, responsibilities) } :
           /\ biases' = up.biases
           /\ priors' = up.priors
    /\ pc' = "coin_ll"
    /\ UNCHANGED << data, max_iters, iteration, rng, result, num_flips,
                    num_coins, tolerance, responsibilities,
                    previous_log_likelihood, current_log_likelihood >>
    /\ UNCHANGED gmm_vars
    /\ UNCHANGED kmeans_vars

\* current_log_likelihood = log_likelihood(data, num_flips, biases, priors)
LogLikelihood ==
    /\ pc = "coin_ll"
    /\ current_log_likelihood' = log_likelihood(data, num_flips, biases, priors)
    /\ pc' = "coin_test"
    /\ UNCHANGED << data, max_iters, iteration, rng, result, num_flips,
                    num_coins, tolerance, biases, priors, responsibilities,
                    previous_log_likelihood >>
    /\ UNCHANGED gmm_vars
    /\ UNCHANGED kmeans_vars

\* if np.abs(current_log_likelihood - previous_log_likelihood) < tolerance:
\*     break
\* previous_log_likelihood = current_log_likelihood
ToleranceTest ==
    /\ pc = "coin_test"
    /\ \E stop \in within_tolerance(current_log_likelihood,
                                     previous_log_likelihood, tolerance) :
           IF stop
           THEN /\ pc' = "coin_return"
                /\ UNCHANGED << previous_log_likelihood, iteration >>
           ELSE /\ previous_log_likelihood' = current_log_likelihood
                /\ iteration' = iteration + 1
                /\ pc' = CoinForLoop(iteration + 1, max_iters)
    /\ UNCHANGED << data, max_iters, rng, result, num_flips, num_coins,
                    tolerance, biases, priors, responsibilities,
                    current_log_likelihood >>
    /\ UNCHANGED gmm_vars
    /\ UNCHANGED kmeans_vars

\* return biases, priors
CoinReturn ==
    /\ pc = "coin_return"
    /\ pc' = "coin_returned"
    /\ result' = [kind |-> "returned", value |-> << biases, priors >>]
    /\ UNCHANGED << data, max_iters, iteration, rng, num_flips, num_coins,
                    tolerance, biases, priors, responsibilities,
                    previous_log_likelihood, current_log_likelihood >>
    /\ UNCHANGED gmm_vars
    /\ UNCHANGED kmeans_vars

Next ==
    \/ CallGmmStep
    \/ InitializeParameters
    \/ EStep
    \/ MStep
    \/ Return
    \/ CallMultivariateGaussian
    \/ CallEStep
    \/ CallMStep
    \/ CallFit
    \/ InitializeCentroids
    \/ ClusterAssignment
    \/ UpdateCentroids
    \/ Objective
    \/ ConvergenceTest
    \/ CallCoinProbabilities
    \/ CoinInitialise
    \/ ComputeResponsibilities
    \/ UpdateParameters
    \/ LogLikelihood
    \/ ToleranceTest
    \/ CoinReturn

Spec == Init /\ [][Next]_vars

\* the statements of gmm_step's body, once the call is entered
FitStep == InitializeParameters \/ EStep \/ MStep \/ Return

\* a call that was entered runs on: the interpreter executes the next statement
FairSpec == Spec /\ WF_vars(FitStep)

---------------------------------------------------------------------------
(* Scope invariant: every E-step explored normalises commensurable rows *)

CommensurableRows ==
    pc = "e_step" =>
        Commensurable(data, weights, means, covariances, num_components)

\* Scope invariant: every tolerance test explored is decided by the bounds of
\* e^tolerance
ToleranceDecided ==
    pc = "coin_test" =>
        Cardinality(within_tolerance(current_log_likelihood,
                                     previous_log_likelihood, tolerance)) = 1

---------------------------------------------------------------------------
(* Properties *)

\* an M-step has acted: in a fit, or called on its own
AfterMStep ==
    \/ pc \in { "e_step", "return", "returned" } /\ iteration >= 1
    \/ pc = "m_step_done"

\* an E-step has stored prior_pi: in a fit, or called on its own
AfterEStep == pc \in { "m_step", "e_step_done" }

RowsSumToOne(p) == \A n \in 1..Len(p) : Sum(p[n]) = R(1)

FiniteModel(w, m, c) ==
    /\ \A i \in 1..Len(w) : IsFinite(w[i])
    /\ \A i \in 1..Len(m) : ~PtHasNaN(m[i])
    /\ \A i \in 1..Len(c) : ~MatHasNaN(c[i])

\* C1: after every M-step whose responsibility matrix has every row summing to
\* 1, with 1 <= K <= N, every weight is >= 0 and the K weights sum to 1.
C1_WeightsOnSimplex ==
    (/\ AfterMStep
     /\ 1 <= num_components /\ num_components <= Len(data)
     /\ RowsSumToOne(prior_pi))
    => /\ \A i \in 1..num_components : Le(R(0), weights[i])
       /\ Sum(weights) = R(1)

\* C1's case: a fit with two components is past its second M-step
C1_Witness ==
    /\ pc \in { "e_step", "return" } /\ iteration >= 2
    /\ num_components = 2 /\ Len(data) >= 2
    /\ RowsSumToOne(prior_pi)
    /\ Len(weights) = 2

\* C2: after every E-step, no stored row has an unnormalised sum of zero (such
\* a row is flagged instead of normalised), and every row with a non-zero sum
\* has its entries in [0, 1] and sums to 1.
C2_RowsNormalisedOrFlagged ==
    (AfterEStep /\ num_components >= 1) =>
        \A n \in 1..Len(data) :
            LET u == Unnormalised(data, weights, means, covariances,
                                  num_components)
            IN  /\ ~IsZero(Sum(u[n]))
                /\ \A i \in 1..num_components :
                      Le(R(0), prior_pi[n][i]) /\ Le(prior_pi[n][i], R(1))
                /\ Sum(prior_pi[n]) = R(1)

C4_FitTerminates ==
    /\ [](pc \in FitPcs => iteration <= max_iters)
    /\ [](pc \in { "e_step", "m_step" } => iteration < max_iters)
    /\ [](pc = "returned" =>
            result = [kind |-> "returned",
                      value |-> << weights, means, covariances >>])
    /\ (pc = "init") ~> (pc \in { "returned", "raised" })

\* C4's case: a fit has returned after running several cycles, all it was given
C4_Witness ==
    /\ pc = "returned" /\ result.kind = "returned"
    /\ num_components >= 1 /\ max_iters >= 2 /\ iteration = max_iters

\* C5: a fit never returns a model with a non-finite weight, mean or
\* covariance entry.
C5_ReturnedModelFinite ==
    pc = "returned" =>
        FiniteModel(result.value[1], result.value[2], result.value[3])

\* C6: a fit called with K > N, K <= 0 or an empty dataset is rejected before
\* any E-step or M-step: it runs no iteration and returns no model.
C6_InvalidInputRejected ==
    (/\ pc \in FitPcs
     /\ \/ num_components > Len(data)
        \/ num_components <= 0
        \/ Len(data) = 0)
    => pc \in { "init", "raised" }

\* C7: an M-step never produces the mean or covariance of a component whose
\* effective count n_k is zero by dividing by n_k.
C7_NoDivisionByZeroCount ==
    AfterMStep =>
        \A k \in 1..num_components :
            IsZero(n_k(prior_pi, num_components)[k]) =>
                ~PtHasNaN(means[k]) /\ ~MatHasNaN(covariances[k])

\* C8: multivariate_gaussian returns no value for a covariance whose
\* determinant is <= 0, and the E-step stores no responsibility computed from
\* one.
C8_NonPositiveDeterminantFails ==
    /\ pc = "gaussian_done" => ~Le(Det(density.cov), R(0))
    /\ AfterEStep =>
          \A i \in 1..num_components : ~Le(Det(covariances[i]), R(0))

\* the mean of all N points
SampleMean(d) ==
    Arr([a \in 1..2 |->
            Div(Sum(Arr([n \in 1..Len(d) |-> d[n][a]])), R(Len(d)))])

\* the scatter of all N points about their mean, divided by N
SampleCov(d) ==
    LET mu == SampleMean(d)
    IN  Arr([a \in 1..2 |-> Arr([b \in 1..2 |->
            Div(Sum(Arr([n \in 1..Len(d) |->
                       Mul(Sub(d[n][a], mu[a]), Sub(d[n][b], mu[b]))])),
                R(Len(d)))])])

NonDegenerate(d) ==
    \A cv \in np_cov(d) :
        IsMatrix(cv) /\ IsFinite(Det(cv)) /\ Lt(R(0), Det(cv))

\* C9: with K = 1 and a non-degenerate initial covariance, after the first
\* cycle and after every later one the weight is 1, the mean is the sample
\* mean of all N points and the covariance is their sample covariance (the
\* scatter about the mean divided by n_k = N).
C9_SingleComponentFit ==
    (/\ pc \in { "e_step", "return", "returned" } /\ iteration >= 1
     /\ num_components = 1
     /\ NonDegenerate(data))
    => /\ weights = << R(1) >>
       /\ means = << SampleMean(data) >>
       /\ covariances = << SampleCov(data) >>

\* C9's case: a one-component fit of non-degenerate data is past a later cycle
C9_Witness ==
    /\ pc \in { "e_step", "return" } /\ iteration >= 2
    /\ num_components = 1 /\ NonDegenerate(data)
    /\ Len(data) >= 4

\* C10: a fit leaves the process-wide random generator as it found it.
C10_GeneratorUntouched == [][(pc \in FitPcs) => (rng' = rng)]_vars

\* C11: during a fit the dataset and K are never modified; an E-step leaves
\* the weights, means and covariances unchanged; the parameters change only
\* in an M-step, which completes exactly one iteration, and that M-step
\* computes them from the responsibility matrix the E-step of the same
\* iteration produced from the parameters the iteration started with.
C11_ParametersChangeOnlyInMStep ==
    /\ [][(pc \in FitPcs) => UNCHANGED << data, num_components >>]_vars
    /\ [][(pc = "e_step") => UNCHANGED << weights, means, covariances >>]_vars
    /\ [][(pc \in FitPcs \ { "init", "m_step" })
            => UNCHANGED << weights, means, covariances, iteration >>]_vars
    /\ [][(pc = "m_step")
            => /\ iteration' = iteration + 1
               /\ prior_pi = e_step(data, weights, means, covariances,
                                    num_components).prior_pi
               /\ [weights |-> weights', means |-> means',
                   covariance |-> covariances']
                     = m_step(data, prior_pi, num_components)]_vars

\* C11's case: the M-step of a fit's first iteration is about to replace the
\* initial parameters by different ones, computed from a stored E-step result
C11_Witness ==
    /\ pc = "m_step" /\ iteration = 0 /\ max_iters >= 2
    /\ num_components >= 1 /\ Len(data) >= 3
    /\ Len(prior_pi) = Len(data)
    /\ m_step(data, prior_pi, num_components)
          # [weights |-> weights, means |-> means, covariance |-> covariances]

\* C12: the objective value KMeans.fit appends in an iteration is the sum of
\* squared nearest-centroid distances measured against the centroids that
\* iteration's update_centroids call produced.
C12_ObjectiveAfterUpdate ==
    pc = "km_test" =>
        objective_values[Len(objective_values)]
            = objective(data, new_centroids)

\* C14: whenever KMeans.fit returns after at least one iteration, on centroid
\* equality or with max_iters exhausted, the stored labels are the
\* nearest-centroid assignment of every point to the stored centroids.
C14_LabelsNearestToStoredCentroids ==
    (pc = "km_returned" /\ max_iters >= 1) =>
        /\ Len(labels) = Len(data)
        /\ labels = cluster_assignment(data, centroids)

\* the tolerance test of coin_probabilities holds in this state
DiffersByLessThanTolerance ==
    within_tolerance(current_log_likelihood, previous_log_likelihood,
                     tolerance) = { TRUE }

\* C13: the log-likelihood tested in an iteration is the one of the biases
\* and priors just updated; the previous one is -inf throughout the first
\* iteration and afterwards the one tested in the iteration before; the loop
\* is left by the break exactly at the first test where the two differ by less
\* than tolerance, which is never the first iteration, and otherwise goes on
\* until exactly max_iter iterations have run.
C13_StopsAtFirstSmallChange ==
    /\ [](pc = "coin_test" =>
            current_log_likelihood
                = log_likelihood(data, num_flips, biases, priors))
    /\ []((pc \in { "coin_e_step", "coin_m_step", "coin_ll", "coin_test" }
            /\ iteration = 0)
           => previous_log_likelihood = MinusInfinity)
    /\ []((pc = "coin_test" /\ iteration = 0) => ~DiffersByLessThanTolerance)
    /\ [](pc \in { "coin_e_step", "coin_m_step", "coin_ll", "coin_test" }
           => iteration < max_iters)
    /\ [](pc \in { "coin_return", "coin_returned" } => iteration <= max_iters)
    /\ [][(pc = "coin_test" /\ DiffersByLessThanTolerance)
            => (pc' = "coin_return" /\ iteration' = iteration)]_vars
    /\ [][(pc = "coin_test" /\ ~DiffersByLessThanTolerance)
            => /\ previous_log_likelihood' = current_log_likelihood
               /\ iteration' = iteration + 1
               /\ pc' = IF iteration + 1 < max_iters THEN "coin_e_step"
                         ELSE "coin_return"]_vars

\* C13's case: the loop was left by the break in its second iteration, on a
\* log-likelihood that differs from the previous, finite one
C13_Witness ==
    /\ pc = "coin_return" /\ iteration = 1 /\ iteration < max_iters
    /\ IsFinite(current_log_likelihood.exp)
    /\ ~IsZero(current_log_likelihood.exp)
    /\ ~IsZero(previous_log_likelihood.exp)
    /\ current_log_likelihood # previous_log_likelihood

=============================================================================
